---- MODULE Spec2Model ----
(***************************************************************************)
(* Model of src/app.py: the GoTo call-report dashboard.                    *)
(*                                                                         *)
(* One script run is: upload -> load_data (normalisation) -> sidebar       *)
(* filters -> KPI and chart block -> detail table.  Text cells are         *)
(* sequences of one-character strings so that the regular expressions of   *)
(* the source (prefix strip, substring search) are computed, not assumed.  *)
(* A timestamp cell is a record: what the text says (civil day number      *)
(* since 1970-01-01, hour, stated UTC offset) or that it is not a          *)
(* timestamp.  Instants are whole hours since 1970-01-01T00:00Z.           *)
(***************************************************************************)
EXTENDS Integers, Sequences, FiniteSets, TLC

VARIABLES uploaded_file, pc, date_col, df, date_range, directions, results,
          selected_agents, df_filtered, kpi, error

vars == <<uploaded_file, pc, date_col, df, date_range, directions, results,
          selected_agents, df_filtered, kpi, error>>

\* ------------------------------------------------------------------ bounds
MaxRows == 2

\* ------------------------------------------------------------ column names
COL_DATE_SP == "Date [America/Sao_Paulo]"
COL_DATE == "Date"
COL_DURATION == "Duration [Milliseconds]"
COL_FROM == "From"
COL_DIRECTION == "Direction"
COL_RESULT == "Call Result"
COL_FORMATADA == "Duracao_Formatada"

\* ---------------------------------------------------------------- strings
NaN == <<"NaN">>
NaT == [utc |-> 0, tz |-> "NaT"]
NoName == "NaN"

Digits == {"0", "1", "2", "3", "4", "5", "6", "7", "8", "9"}
IsDigit(c) == c \in Digits
IsSpace(c) == c = " "

Upper == <<"A","B","C","D","E","F","G","H","I","J","K","L","M",
           "N","O","P","Q","R","S","T","U","V","W","X","Y","Z">>
LowerLetters == <<"a","b","c","d","e","f","g","h","i","j","k","l","m",
                  "n","o","p","q","r","s","t","u","v","w","x","y","z">>

Lower(c) ==
  IF \E i \in 1..26 : Upper[i] = c
  THEN LowerLetters[CHOOSE i \in 1..26 : Upper[i] = c]
  ELSE c

LowerStr(s) == [i \in 1..Len(s) |-> Lower(s[i])]

\* the text from position i on
Drop(s, i) == IF i > Len(s) THEN <<>> ELSE SubSeq(s, i, Len(s))

\* number of leading characters of s that satisfy the class, from position i
RECURSIVE RunOfDigits(_, _)
RunOfDigits(s, i) ==
  IF i <= Len(s) /\ IsDigit(s[i]) THEN 1 + RunOfDigits(s, i + 1) ELSE 0

RECURSIVE RunOfSpaces(_, _)
RunOfSpaces(s, i) ==
  IF i <= Len(s) /\ IsSpace(s[i]) THEN 1 + RunOfSpaces(s, i + 1) ELSE 0

\* pat occurs in s at position i
MatchesAt(s, pat, i) ==
  /\ i + Len(pat) - 1 <= Len(s)
  /\ \A j \in 1..Len(pat) : s[i + j - 1] = pat[j]

\* Series.str.contains(pat, case=False, na=False) for a literal pattern
ContainsNoCase(s, pat) ==
  IF s = NaN THEN FALSE
  ELSE \E i \in 1..(Len(s) + 1) : MatchesAt(LowerStr(s), LowerStr(pat), i)

\* ------------------------------------------------------- literals (text)
S_nan == <<"n","a","n">>
S_Desconhecido == <<"D","e","s","c","o","n","h","e","c","i","d","o">>
S_WaitInQueue == <<"W","a","i","t"," ","i","n"," ","q","u","e","u","e">>
S_FilaDeEspera == <<"F","i","l","a"," ","d","e"," ","E","s","p","e","r","a">>
S_Missed == <<"M","i","s","s","e","d">>
S_Voicemail == <<"V","o","i","c","e","m","a","i","l">>

\* ------------------------------------------------ load_data: timestamps
\* UTC offset, in hours, that the text of a timestamp states
ZoneOffset(zone) == IF zone = "-03:00" THEN 0 - 3 ELSE 0

\* pd.to_datetime(cell, errors='coerce', utc=True)
to_datetime(cell) ==
  IF cell.kind = "iso"
  THEN [utc |-> cell.day * 24 + cell.hour - ZoneOffset(cell.zone), tz |-> "UTC"]
  ELSE NaT

\* UTC offset of America/Sao_Paulo, in hours (no daylight saving since 2019)
SaoPauloOffset == 0 - 3

TzOffset(tz) == IF tz = "America/Sao_Paulo" THEN SaoPauloOffset ELSE 0

\* the conversion left out: the timestamp stays in UTC
tz_convert_skipped(ts) == ts

\* Series.dt.tz_convert('America/Sao_Paulo')
tz_convert(ts) == [utc |-> ts.utc, tz |-> "America/Sao_Paulo"]

\* civil clock reading of a timestamp, in hours since 1970-01-01T00:00 civil
CivilHours(ts) == ts.utc + TzOffset(ts.tz)

\* Series.dt.date, Series.dt.hour, Series.dt.day_name()
dt_date(ts) == CivilHours(ts) \div 24
dt_hour(ts) == CivilHours(ts) % 24

DayNames ==
  <<"Monday", "Tuesday", "Wednesday", "Thursday", "Friday", "Saturday", "Sunday">>

\* 1970-01-01 was a Thursday
day_name(ts) == DayNames[((dt_date(ts) + 3) % 7) + 1]

dias_traducao ==
  [d \in {"Monday", "Tuesday", "Wednesday", "Thursday", "Friday", "Saturday", "Sunday"} |->
     CASE d = "Monday" -> "Segunda"
       [] d = "Tuesday" -> "Terça"
       [] d = "Wednesday" -> "Quarta"
       [] d = "Thursday" -> "Quinta"
       [] d = "Friday" -> "Sexta"
       [] d = "Saturday" -> "Sábado"
       [] d = "Sunday" -> "Domingo"]

\* Series.map(dict): a value that is no key of the dict maps to NaN
map_dict(table, v) == IF v \in DOMAIN table THEN table[v] ELSE NoName

\* -------------------------------------------------- load_data: duration
DigitValue(c) == CHOOSE n \in 0..9 : ToString(n) = c

RECURSIVE ParseDigits(_, _, _)
ParseDigits(s, i, acc) ==
  IF i > Len(s) THEN acc ELSE ParseDigits(s, i + 1, acc * 10 + DigitValue(s[i]))

IsInteger(s) ==
  LET body == IF Len(s) > 0 /\ s[1] \in {"-", "+"} THEN Drop(s, 2) ELSE s
  IN  /\ s # NaN
      /\ Len(body) > 0
      /\ \A i \in 1..Len(body) : IsDigit(body[i])

\* pd.to_numeric(cell, errors='coerce'): isna marks the coerced failures
to_numeric(s) ==
  IF IsInteger(s)
  THEN [isna |-> FALSE,
        value |-> IF s[1] = "-" THEN 0 - ParseDigits(Drop(s, 2), 1, 0)
                  ELSE IF s[1] = "+" THEN ParseDigits(Drop(s, 2), 1, 0)
                  ELSE ParseDigits(s, 1, 0)]
  ELSE [isna |-> TRUE, value |-> 0]

fillna(n, default) == IF n.isna THEN default ELSE n.value

MS_PER_MINUTE == 60000

\* x / MS_PER_MINUTE, kept as an exact fraction
to_minutes(ms) == [num |-> ms, den |-> MS_PER_MINUTE]

\* ----------------------------------------------------- load_data: agent
\* Series.astype(str)
astype_str(s) == IF s = NaN THEN S_nan ELSE s

\* Series.str.replace(r'^\d+:\s*', '', regex=True)
strip_prefix(s) ==
  LET n == RunOfDigits(s, 1)
  IN  IF n >= 1 /\ n + 1 <= Len(s) /\ s[n + 1] = ":"
      THEN Drop(s, n + 2 + RunOfSpaces(s, n + 2))
      ELSE s

\* Series.replace({'nan': 'Desconhecido', 'Wait in queue': 'Fila de Espera'})
replace_sentinels(s) ==
  IF s = S_nan THEN S_Desconhecido
  ELSE IF s = S_WaitInQueue THEN S_FilaDeEspera
  ELSE s

Agente(raw) == replace_sentinels(strip_prefix(astype_str(raw)))

\* --------------------------------------------------------- data frames
\* a row with column c set to v (the column is created when it is new)
SetCol(r, c, v) == [x \in DOMAIN r \cup {c} |-> IF x = c THEN v ELSE r[x]]

\* df[c] = values, a series aligned with the rows
Assign(d, c, values) ==
  [cols |-> d.cols \cup {c},
   rows |-> [i \in 1..Len(d.rows) |-> SetCol(d.rows[i], c, values[i])]]

\* rows[mask], a boolean-mask selection: the kept rows in their order
Select(rows, mask) ==
  LET upto[i \in 0..Len(rows)] ==
        IF i = 0 THEN <<>>
        ELSE IF mask[i] THEN Append(upto[i - 1], rows[i])
        ELSE upto[i - 1]
  IN  upto[Len(rows)]

\* Series.unique(), as a set
unique(d, c) == {d.rows[i][c] : i \in 1..Len(d.rows)}

\* pd.read_csv: the columns of the file, the rows under a RangeIndex
read_csv(file) ==
  [cols |-> file.cols,
   rows |-> [i \in 1..Len(file.rows) |->
               [x \in file.cols \cup {"index"} |->
                  IF x = "index" THEN i - 1 ELSE file.rows[i][x]]]]

\* dropna() without its subset: a row with any missing cell is dropped
dropna_any_column(d) ==
  LET complete(r) ==
        /\ r["Data_Hora"] # NaT
        /\ \A c \in {COL_DURATION, COL_FROM, COL_DIRECTION, COL_RESULT} \cap d.cols :
             r[c] # NaN
  IN  [cols |-> d.cols,
       rows |-> Select(d.rows, [i \in 1..Len(d.rows) |-> complete(d.rows[i])])]

\* df.dropna(subset=['Data_Hora'])
dropna(d) ==
  LET notna == [i \in 1..Len(d.rows) |-> d.rows[i]["Data_Hora"] # NaT]
  IN  [cols |-> d.cols, rows |-> Select(d.rows, notna)]

\* ------------------------------------------------ formatting and KPIs
\* int(x) of Python: truncation toward zero of a / b, b > 0
Trunc(a, b) == IF a >= 0 THEN a \div b ELSE 0 - ((0 - a) \div b)

formatar_duracao_humanizada(minutos_totais) ==
  LET segundos_totais == Trunc(minutos_totais.num * 60, minutos_totais.den)
      horas == segundos_totais \div 3600
      minutos_restantes == (segundos_totais % 3600) \div 60
      segundos == segundos_totais % 60
  IN  IF horas > 0
      THEN [unit |-> "h m", a |-> horas, b |-> minutos_restantes]
      ELSE [unit |-> "m s", a |-> minutos_restantes, b |-> segundos]

RECURSIVE SumMinutes(_)
SumMinutes(rows) ==
  IF rows = <<>> THEN 0
  ELSE Head(rows)["Duracao_Minutos"].num + SumMinutes(Tail(rows))

\* the match as membership in a set of labels instead of a substring search
is_missed_exact_label(r) ==
  r[COL_RESULT] \in
    { <<"M","i","s","s","e","d"," ","C","a","l","l">>, S_Voicemail,
      <<"S","e","n","t"," ","t","o"," ","v","o","i","c","e","m","a","i","l">> }

\* Series.str.contains('Missed|Voicemail', case=False, na=False)
is_missed(r) ==
  \/ ContainsNoCase(r[COL_RESULT], S_Missed)
  \/ ContainsNoCase(r[COL_RESULT], S_Voicemail)

NoKpi ==
  [computed |-> FALSE, total_calls |-> 0,
   total_duration_mins |-> [num |-> 0, den |-> 1],
   total_duration_fmt |-> [unit |-> "", a |-> 0, b |-> 0],
   avg_duration_mins |-> [num |-> 0, den |-> 1],
   avg_duration_fmt |-> [unit |-> "", a |-> 0, b |-> 0],
   missed_count |-> 0, missed_rate |-> [num |-> 0, den |-> 1]]

Kpis(rows) ==
  LET total_calls == Len(rows)
      total_duration_mins == [num |-> SumMinutes(rows), den |-> MS_PER_MINUTE]
      avg_duration_mins ==
        [num |-> SumMinutes(rows), den |-> MS_PER_MINUTE * total_calls]
      missed_count == Len(Select(rows, [i \in 1..Len(rows) |-> is_missed(rows[i])]))
  IN  [computed |-> TRUE, total_calls |-> total_calls,
       total_duration_mins |-> total_duration_mins,
       total_duration_fmt |-> formatar_duracao_humanizada(total_duration_mins),
       avg_duration_mins |-> avg_duration_mins,
       avg_duration_fmt |-> formatar_duracao_humanizada(avg_duration_mins),
       missed_count |-> missed_count,
       missed_rate |-> IF total_calls > 0
                       THEN [num |-> missed_count * 100, den |-> total_calls]
                       ELSE [num |-> 0, den |-> 1]]

\* columns that the KPI and chart block reads from df_filtered
KpiChartColumns ==
  {"Duracao_Minutos", COL_RESULT, "Data", "Agente", "Dia_Semana_PT", "Hora"}

\* columns that the detail table selects from df_filtered
DetailColumns == {"Data_Hora", COL_DIRECTION, "Agente", COL_RESULT, COL_FORMATADA}

\* --------------------------------------------------------------- filters
NoDateRange == [is_list |-> TRUE, value |-> <<>>]

\* the end of the range compared with < instead of <=
mask_date_end_exclusive(dr, r) ==
  IF dr.is_list /\ Len(dr.value) = 2
  THEN r["Data"] >= dr.value[1] /\ r["Data"] < dr.value[2]
  ELSE r["Data"] = dr.value[1]

mask_date(dr, r) ==
  IF dr.is_list /\ Len(dr.value) = 2
  THEN r["Data"] >= dr.value[1] /\ r["Data"] <= dr.value[2]
  ELSE r["Data"] = dr.value[1]

isin(v, selected) == v \in selected

ApplyFilters(d, dr, dirs, res, agents) ==
  LET mask == [i \in 1..Len(d.rows) |->
                 /\ mask_date(dr, d.rows[i])
                 /\ isin(d.rows[i][COL_DIRECTION], dirs)
                 /\ isin(d.rows[i][COL_RESULT], res)]
      first == Select(d.rows, mask)
      by_agent == [i \in 1..Len(first) |-> isin(first[i]["Agente"], agents)]
  IN  IF agents # {} THEN Select(first, by_agent) ELSE first

\* ------------------------------------------------------- uploaded files
Iso(day, hour, zone) == [kind |-> "iso", day |-> day, hour |-> hour, zone |-> zone]
NotADate == [kind |-> "text", day |-> 0, hour |-> 0, zone |-> ""]
NoDate == [kind |-> "nan", day |-> 0, hour |-> 0, zone |-> ""]

RawRow(date_sp, date, duration, from, direction, result) ==
  [x \in {COL_DATE_SP, COL_DATE, COL_DURATION, COL_FROM, COL_DIRECTION,
          COL_RESULT, COL_FORMATADA} |->
     CASE x = COL_DATE_SP -> date_sp
       [] x = COL_DATE -> date
       [] x = COL_DURATION -> duration
       [] x = COL_FROM -> from
       [] x = COL_DIRECTION -> direction
       [] x = COL_RESULT -> result
       [] x = COL_FORMATADA -> <<"2","m"," ","5","s">>]

\* the report lines that the uploaded files are made of (2024-01-15 is day 19737)
RawRows ==
  { RawRow(Iso(19737, 10, "Z"), Iso(19737, 10, "Z"),
           <<"1","2","5","0","0","0">>,
           <<"0","6","7",":"," ","M","a","r","i","a">>,
           <<"I","n","b","o","u","n","d">>,
           <<"M","i","s","s","e","d"," ","C","a","l","l">>),
    RawRow(NotADate, Iso(19737, 10, "Z"),
           NaN,
           NaN,
           <<"O","u","t","b","o","u","n","d">>,
           <<"E","n","d","e","d"," ","s","u","c","c","e","s","s","f","u","l","l","y">>),
    RawRow(Iso(19737, 1, "Z"), NoDate,
           <<"-","5","0","0","0">>,
           <<"0","6","7",":"," ","W","a","i","t"," ","i","n"," ","q","u","e","u","e">>,
           <<" ","I","n","b","o","u","n","d"," ">>,
           <<"S","e","n","t"," ","t","o"," ","v","o","i","c","e","m","a","i","l">>),
    RawRow(Iso(19737, 23, "-03:00"), NotADate,
           <<"a","b","c">>,
           S_WaitInQueue,
           <<"O","u","t","b","o","u","n","d">>,
           <<"m","i","s","s","e","d"," ","c","a","l","l">>),
    RawRow(NoDate, Iso(19738, 2, "Z"),
           <<"6","0","0","0","0">>,
           <<"1","2",":"," ","n","a","n">>,
           NaN,
           NaN),
    RawRow(Iso(19737, 12, "Z"), Iso(19737, 12, "Z"),
           <<"0">>,
           <<" ","M","a","r","i","a"," ">>,
           <<"I","n","b","o","u","n","d">>,
           <<"E","n","d","e","d"," ","s","u","c","c","e","s","s","f","u","l","l","y">>) }

InputColumns ==
  {COL_DATE_SP, COL_DATE, COL_DURATION, COL_FROM, COL_DIRECTION, COL_RESULT}

\* the column layouts of the uploaded files
ColumnSets ==
  { InputColumns,
    (InputColumns \ {COL_DATE_SP}) \cup {COL_FORMATADA},
    InputColumns \ {COL_DATE_SP, COL_DATE},
    InputColumns \ {COL_DURATION},
    InputColumns \ {COL_FROM},
    InputColumns \ {COL_DIRECTION},
    InputColumns \ {COL_RESULT} }

RowSeqs == UNION {[1..n -> RawRows] : n \in 0..MaxRows}

Files == [cols : ColumnSets, rows : RowSeqs]

\* the dates the date control can yield
Dates == {19736, 19737}

\* what the date control can yield: a range, a list of one date, a date
DateRanges ==
  {[is_list |-> TRUE, value |-> <<p[1], p[2]>>] :
      p \in {q \in Dates \X Dates : q[1] <= q[2]}}
    \cup {[is_list |-> TRUE, value |-> <<s>>] : s \in Dates}
    \cup {[is_list |-> FALSE, value |-> <<s>>] : s \in Dates}

\* ------------------------------------------------------------ the script
NoFile == [cols |-> {}, rows |-> <<>>]
NoDf == [cols |-> {}, rows |-> <<>>]
NoError == [where |-> "", column |-> ""]

Init ==
  /\ uploaded_file = NoFile
  /\ pc = "idle"
  /\ date_col = ""
  /\ df = NoDf
  /\ date_range = NoDateRange
  /\ directions = {}
  /\ results = {}
  /\ selected_agents = {}
  /\ df_filtered = <<>>
  /\ kpi = NoKpi
  /\ error = NoError

ResetRun ==
  /\ date_range' = NoDateRange
  /\ directions' = {}
  /\ results' = {}
  /\ selected_agents' = {}
  /\ df_filtered' = <<>>
  /\ kpi' = NoKpi
  /\ error' = NoError

\* st.file_uploader yields a file: the script runs and calls load_data
Upload(file) ==
  /\ pc = "idle"
  /\ uploaded_file' = file
  /\ pc' = "read_csv"
  /\ date_col' = ""
  /\ df' = NoDf
  /\ ResetRun

\* load_data: read the CSV and choose the date column
ReadCsv ==
  /\ pc = "read_csv"
  /\ df' = read_csv(uploaded_file)
  /\ date_col' = IF COL_DATE_SP \in uploaded_file.cols THEN COL_DATE_SP ELSE COL_DATE
  /\ pc' = "to_datetime"
  /\ UNCHANGED <<uploaded_file, date_range, directions, results, selected_agents,
                 df_filtered, kpi, error>>

Raise(where, column) ==
  /\ pc' = "KeyError"
  /\ error' = [where |-> where, column |-> column]
  /\ UNCHANGED <<uploaded_file, date_col, df, date_range, directions, results,
                 selected_agents, df_filtered, kpi>>

Step(next_pc, next_df) ==
  /\ pc' = next_pc
  /\ df' = next_df
  /\ UNCHANGED <<uploaded_file, date_col, date_range, directions, results,
                 selected_agents, df_filtered, kpi, error>>

\* df['Data_Hora'] = pd.to_datetime(df[date_col], errors='coerce', utc=True)
ToDatetime ==
  /\ pc = "to_datetime"
  /\ date_col \in df.cols
  /\ Step("dropna", Assign(df, "Data_Hora", [i \in 1..Len(df.rows) |-> to_datetime(df.rows[i][date_col])]))

ToDatetimeKeyError ==
  /\ pc = "to_datetime"
  /\ date_col \notin df.cols
  /\ Raise("load_data", date_col)

\* df = df.dropna(subset=['Data_Hora'])
DropNa ==
  /\ pc = "dropna"
  /\ Step("tz_convert", dropna(df))

\* df['Data_Hora'] = df['Data_Hora'].dt.tz_convert('America/Sao_Paulo')
TzConvert ==
  /\ pc = "tz_convert"
  /\ Step("derive",
          Assign(df, "Data_Hora",
                 [i \in 1..Len(df.rows) |-> tz_convert(df.rows[i]["Data_Hora"])]))

\* df['Data'], df['Hora'], df['Dia_Semana']
Derive ==
  /\ pc = "derive"
  /\ LET data == [i \in 1..Len(df.rows) |-> dt_date(df.rows[i]["Data_Hora"])]
         hora == [i \in 1..Len(df.rows) |-> dt_hour(df.rows[i]["Data_Hora"])]
         dia == [i \in 1..Len(df.rows) |-> day_name(df.rows[i]["Data_Hora"])]
     IN  Step("duration",
              Assign(Assign(Assign(df, "Data", data), "Hora", hora), "Dia_Semana", dia))

\* df['Duration [Milliseconds]'], df['Duracao_Minutos']
Duration ==
  /\ pc = "duration"
  /\ COL_DURATION \in df.cols
  /\ LET ms == [i \in 1..Len(df.rows) |->
                  fillna(to_numeric(df.rows[i][COL_DURATION]), 0)]
         minutos == [i \in 1..Len(df.rows) |-> to_minutes(ms[i])]
     IN  Step("agent", Assign(Assign(df, COL_DURATION, ms), "Duracao_Minutos", minutos))

DurationKeyError ==
  /\ pc = "duration"
  /\ COL_DURATION \notin df.cols
  /\ Raise("load_data", COL_DURATION)

\* df['Agente']
Agent ==
  /\ pc = "agent"
  /\ COL_FROM \in df.cols
  /\ Step("weekday",
          Assign(df, "Agente", [i \in 1..Len(df.rows) |-> Agente(df.rows[i][COL_FROM])]))

AgentKeyError ==
  /\ pc = "agent"
  /\ COL_FROM \notin df.cols
  /\ Raise("load_data", COL_FROM)

\* df['Dia_Semana_PT'] = df['Dia_Semana'].map(dias_traducao); return df
Weekday ==
  /\ pc = "weekday"
  /\ Step("sidebar",
          Assign(df, "Dia_Semana_PT",
                 [i \in 1..Len(df.rows) |-> map_dict(dias_traducao, df.rows[i]["Dia_Semana"])]))

\* the options of a multiselect: the distinct values of a column of df
Options(c) == IF pc = "sidebar" /\ c \in df.cols THEN unique(df, c) ELSE {}

\* the sidebar widgets yield their values and the filters are applied
Sidebar(dr, dirs, res, agents) ==
  /\ pc = "sidebar"
  /\ {COL_DIRECTION, COL_RESULT} \subseteq df.cols
  /\ dirs \subseteq Options(COL_DIRECTION)
  /\ res \subseteq Options(COL_RESULT)
  /\ agents \subseteq Options("Agente")
  /\ date_range' = dr
  /\ directions' = dirs
  /\ results' = res
  /\ selected_agents' = agents
  /\ df_filtered' = ApplyFilters(df, dr, dirs, res, agents)
  /\ pc' = "render"
  /\ UNCHANGED <<uploaded_file, date_col, df, kpi, error>>

\* every value the four widgets can yield
SidebarWidgets ==
  \E dr \in DateRanges :
    \E dirs \in SUBSET Options(COL_DIRECTION) :
      \E res \in SUBSET Options(COL_RESULT) :
        \E agents \in SUBSET Options("Agente") :
          Sidebar(dr, dirs, res, agents)

SidebarKeyError ==
  /\ pc = "sidebar"
  /\ ~ ({COL_DIRECTION, COL_RESULT} \subseteq df.cols)
  /\ Raise("sidebar", IF COL_DIRECTION \notin df.cols THEN COL_DIRECTION ELSE COL_RESULT)

\* st.warning("Nenhum dado encontrado para os filtros selecionados.")
Warning ==
  /\ pc = "render"
  /\ df_filtered = <<>>
  /\ pc' = "done"
  /\ UNCHANGED <<uploaded_file, date_col, df, date_range, directions, results,
                 selected_agents, df_filtered, kpi, error>>

\* the KPI block and the four charts
KpiAndCharts ==
  /\ pc = "render"
  /\ df_filtered # <<>>
  /\ KpiChartColumns \subseteq df.cols
  /\ kpi' = Kpis(df_filtered)
  /\ pc' = "detail"
  /\ UNCHANGED <<uploaded_file, date_col, df, date_range, directions, results,
                 selected_agents, df_filtered, error>>

\* the detail table of the expander
DetailTable ==
  /\ pc = "detail"
  /\ DetailColumns \subseteq df.cols
  /\ pc' = "done"
  /\ UNCHANGED <<uploaded_file, date_col, df, date_range, directions, results,
                 selected_agents, df_filtered, kpi, error>>

DetailKeyError ==
  /\ pc = "detail"
  /\ ~ (DetailColumns \subseteq df.cols)
  /\ Raise("detail", CHOOSE c \in DetailColumns : c \notin df.cols)

\* a widget changes: the script runs again, load_data answers from its cache
Rerun ==
  /\ pc \in {"done", "KeyError"}
  /\ error.where # "load_data"
  /\ pc' = "sidebar"
  /\ ResetRun
  /\ UNCHANGED <<uploaded_file, date_col, df>>

\* the uploaded file is removed: the placeholder is shown again
Clear ==
  /\ pc \in {"done", "KeyError"}
  /\ uploaded_file' = NoFile
  /\ pc' = "idle"
  /\ date_col' = ""
  /\ df' = NoDf
  /\ ResetRun

Next ==
  \/ \E file \in Files : Upload(file)
  \/ Clear
  \/ ReadCsv
  \/ ToDatetime
  \/ ToDatetimeKeyError
  \/ DropNa
  \/ TzConvert
  \/ Derive
  \/ Duration
  \/ DurationKeyError
  \/ Agent
  \/ AgentKeyError
  \/ Weekday
  \/ SidebarWidgets
  \/ SidebarKeyError
  \/ Warning
  \/ KpiAndCharts
  \/ DetailTable
  \/ DetailKeyError
  \/ Rerun

Spec == Init /\ [][Next]_vars

\* ======================================================== properties
\* load_data has returned its table to the script
Normalized ==
  \/ pc \in {"sidebar", "render", "detail", "done"}
  \/ pc = "KeyError" /\ error.where # "load_data"

\* the sidebar has yielded a filter specification and the filters are applied
Filtered ==
  \/ pc \in {"render", "detail", "done"}
  \/ pc = "KeyError" /\ error.where = "detail"

\* the line of the uploaded file that a row of a table comes from
RawOf(r) == uploaded_file.rows[r["index"] + 1]

\* positions of a sequence of rows, as the set of their index labels
IndexSet(rows) == {rows[k]["index"] : k \in 1..Len(rows)}

InOrder(rows) ==
  \A k, l \in 1..Len(rows) : k < l => rows[k]["index"] < rows[l]["index"]

\* C1: the table that load_data returns holds exactly the lines of the file
\* whose timestamp cell is a timestamp, in the order of the file: a line is
\* dropped if and only if its timestamp does not parse, whatever its other
\* cells are, so the table is never longer than the file and is as long
\* exactly when every line has a timestamp.
C1_OnlyUnparseableTimestampsDropped ==
  Normalized =>
    LET raw == uploaded_file.rows
        parseable == {i \in 1..Len(raw) : raw[i][date_col].kind = "iso"}
    IN  /\ IndexSet(df.rows) = {i - 1 : i \in parseable}
        /\ Len(df.rows) = Cardinality(parseable)
        /\ InOrder(df.rows)
        /\ Len(df.rows) <= Len(raw)
        /\ (Len(df.rows) = Len(raw)) <=> (parseable = 1..Len(raw))
        /\ \A k \in 1..Len(df.rows) :
             \A c \in {COL_FROM, COL_DIRECTION, COL_RESULT} \cap uploaded_file.cols :
               df.rows[k][c] = RawOf(df.rows[k])[c]

\* a file of two lines of which the first is dropped and the second, whose
\* duration and origin are missing, is kept
C1_Witness ==
  /\ Normalized
  /\ Len(uploaded_file.rows) = 2
  /\ Len(df.rows) = 1
  /\ df.rows[1]["index"] = 1
  /\ RawOf(df.rows[1])[COL_DURATION] = NaN
  /\ RawOf(df.rows[1])[COL_FROM] = NaN

\* C2: whatever the raw duration cell was, every row of the returned table
\* has a duration in milliseconds that is >= 0 and a duration in minutes
\* equal to it divided by 60000; a missing or unparseable cell gives 0.
C2_DurationNonNegative ==
  Normalized =>
    \A k \in 1..Len(df.rows) :
      LET r == df.rows[k]
          cell == RawOf(r)[COL_DURATION]
      IN  /\ r[COL_DURATION] >= 0
          /\ r["Duracao_Minutos"].num = r[COL_DURATION]
          /\ r["Duracao_Minutos"].den = 60000
          /\ (cell = NaN \/ ~ IsInteger(cell)) => r[COL_DURATION] = 0

\* the rows of df that pass the filters when the named dimensions are left out
ViewWithout(dims) ==
  LET keep(r) ==
        /\ mask_date(date_range, r)
        /\ ("direction" \in dims \/ r[COL_DIRECTION] \in directions)
        /\ ("result" \in dims \/ r[COL_RESULT] \in results)
        /\ ("agent" \in dims \/ r["Agente"] \in selected_agents)
  IN  SelectSeq(df.rows, keep)

\* C3: for each of the three set filters (direction, result, agent), the
\* filtered view under an empty selected set is the view obtained without
\* that filter: an empty set never matches nothing.
C3_EmptySetIsNoConstraint ==
  Filtered =>
    /\ directions = {} =>
         df_filtered = ViewWithout({"direction"} \cup
                         (IF results = {} THEN {"result"} ELSE {}) \cup
                         (IF selected_agents = {} THEN {"agent"} ELSE {}))
    /\ results = {} =>
         df_filtered = ViewWithout({"result"} \cup
                         (IF directions = {} THEN {"direction"} ELSE {}) \cup
                         (IF selected_agents = {} THEN {"agent"} ELSE {}))
    /\ selected_agents = {} =>
         df_filtered = ViewWithout({"agent"} \cup
                         (IF directions = {} THEN {"direction"} ELSE {}) \cup
                         (IF results = {} THEN {"result"} ELSE {}))

\* text without its leading and trailing blanks
Trim(s) ==
  LET inner == {i \in 1..Len(s) : ~ IsSpace(s[i])}
  IN  IF inner = {} THEN <<>>
      ELSE SubSeq(s, CHOOSE i \in inner : \A j \in inner : i <= j,
                     CHOOSE i \in inner : \A j \in inner : i >= j)

\* the translation tables of directions and results, as pairs <<raw, label>>
DirectionLabels ==
  { << <<"I","n","b","o","u","n","d">>, <<"R","e","c","e","b","i","d","a">> >>,
    << <<"O","u","t","b","o","u","n","d">>, <<"R","e","a","l","i","z","a","d","a">> >>,
    << <<"I","n","t","e","r","n","a","l">>, <<"I","n","t","e","r","n","a">> >> }

ResultLabels ==
  { << <<"M","i","s","s","e","d"," ","C","a","l","l">>, <<"P","e","r","d","i","d","a">> >>,
    << <<"E","n","d","e","d"," ","s","u","c","c","e","s","s","f","u","l","l","y">>,
       <<"A","t","e","n","d","i","d","a">> >>,
    << S_Voicemail, <<"C","o","r","r","e","i","o"," ","d","e"," ","V","o","z">> >>,
    << <<"R","e","j","e","c","t","e","d">>, <<"R","e","j","e","i","t","a","d","a">> >>,
    << <<"I","n","t","e","r","n","a","l">>, <<"I","n","t","e","r","n","a">> >>,
    << <<"B","u","s","y">>, <<"O","c","u","p","a","d","o">> >>,
    << <<"F","a","i","l","e","d">>, <<"F","a","l","h","a">> >>,
    << <<"H","u","n","g"," ","u","p"," ","(","o","n"," ","h","o","l","d",")">>,
       <<"D","e","s","l","i","g","o","u"," ","n","a"," ","E","s","p","e","r","a">> >>,
    << <<"S","e","n","t"," ","t","o"," ","v","o","i","c","e","m","a","i","l">>,
       <<"E","n","v","i","a","d","o"," ","p","/"," ","C","o","r","r","e","i","o"," ",
         "d","e"," ","V","o","z">> >>,
    << <<"H","u","n","g"," ","u","p"," ","(","i","n"," ","q","u","e","u","e",")">>,
       <<"D","e","s","l","i","g","o","u"," ","n","a"," ","F","i","l","a">> >> }

\* the label of a raw value: the table's label of the trimmed value, or the
\* trimmed value when the table has no such key
LabelOf(table, raw) ==
  IF \E p \in table : p[1] = Trim(raw)
  THEN (CHOOSE p \in table : p[1] = Trim(raw))[2]
  ELSE Trim(raw)

\* C4: in every row of the returned table, direction and result are the
\* label that the translation table gives to the trimmed raw value, or the
\* trimmed raw value when it is no key of the table; never null, never with
\* blanks around.
C4_DirectionAndResultTranslated ==
  (Normalized /\ {COL_DIRECTION, COL_RESULT} \subseteq df.cols) =>
    \A k \in 1..Len(df.rows) :
      LET r == df.rows[k]
      IN  /\ r[COL_DIRECTION] # NaN
          /\ r[COL_RESULT] # NaN
          /\ r[COL_DIRECTION] = LabelOf(DirectionLabels, RawOf(r)[COL_DIRECTION])
          /\ r[COL_RESULT] = LabelOf(ResultLabels, RawOf(r)[COL_RESULT])

\* C5: when load_data fails for a missing required column, whichever it is,
\* nothing has been processed yet: no timestamp is parsed, no row is dropped
\* and no derived column is computed.
C5_FailsBeforeAnyProcessing ==
  (pc = "KeyError" /\ error.where = "load_data") =>
    /\ df.cols = uploaded_file.cols
    /\ Len(df.rows) = Len(uploaded_file.rows)

\* C6: the origin of a row is the unknown sentinel exactly when the raw From
\* cell is missing, the queue sentinel exactly when the cell is literally
\* "Wait in queue", and otherwise the trimmed cell less one leading
\* "<digits>:" prefix and the blanks after it.
C6_OriginFromRawValue ==
  Normalized =>
    \A k \in 1..Len(df.rows) :
      LET r == df.rows[k]
          cell == RawOf(r)[COL_FROM]
      IN  /\ (r["Agente"] = S_Desconhecido) <=> (cell = NaN)
          /\ (r["Agente"] = S_FilaDeEspera) <=> (cell = S_WaitInQueue)
          /\ (cell # NaN /\ cell # S_WaitInQueue) =>
               r["Agente"] = strip_prefix(Trim(cell))

HasWord(s, word) ==
  /\ s # NaN
  /\ \E i \in 1..Len(s) :
       /\ i + Len(word) - 1 <= Len(s)
       /\ LowerStr(SubSeq(s, i, i + Len(word) - 1)) = word

CountsAsLost(r) ==
  \/ HasWord(r[COL_RESULT], <<"m","i","s","s","e","d">>)
  \/ HasWord(r[COL_RESULT], <<"v","o","i","c","e","m","a","i","l">>)

\* the KPI block has been passed, or skipped for the warning
PastKpis == Filtered /\ pc # "render"

UnsuccessfulLabels ==
  { <<"M","i","s","s","e","d"," ","C","a","l","l">>, S_Voicemail,
    <<"S","e","n","t"," ","t","o"," ","v","o","i","c","e","m","a","i","l">> }

dias_ordem ==
  <<"Segunda", "Terça", "Quarta", "Quinta", "Sexta", "Sábado", "Domingo">>

\* C9: in every row of the returned table, date, hour and weekday are those
\* of the instant of the raw timestamp read on the civil clock of
\* America/Sao_Paulo (three hours behind UTC): the hour is in 0..23 and the
\* translated weekday is the target-locale name of the weekday of that date
\* (2024-01-15, day 19737, is a Monday), never null.
C9_CivilFieldsInSaoPaulo ==
  Normalized =>
    \A k \in 1..Len(df.rows) :
      LET r == df.rows[k]
          cell == RawOf(r)[date_col]
          stated == IF cell.zone = "-03:00" THEN 0 - 3 ELSE 0
          instant == cell.day * 24 + cell.hour - stated
      IN  /\ r["Data_Hora"].tz = "America/Sao_Paulo"
          /\ r["Data_Hora"].utc = instant
          /\ r["Hora"] \in 0..23
          /\ r["Data"] * 24 + r["Hora"] = instant - 3
          /\ r["Dia_Semana_PT"] = dias_ordem[((r["Data"] - 19737) % 7) + 1]
          /\ r["Dia_Semana_PT"] # NoName

\* a row stamped 2024-01-15T01:00Z: Sunday the 14th, 22h, in Sao Paulo
C9_Witness ==
  /\ Normalized
  /\ \E k \in 1..Len(df.rows) :
       /\ RawOf(df.rows[k])[date_col] = Iso(19737, 1, "Z")
       /\ df.rows[k]["Data"] = 19736
       /\ df.rows[k]["Hora"] = 22
       /\ df.rows[k]["Dia_Semana_PT"] = "Domingo"

\* the columns that load_data requires of the file
RequiredColumns(file_cols) ==
  {IF COL_DATE_SP \in file_cols THEN COL_DATE_SP ELSE COL_DATE,
   COL_DURATION, COL_FROM, COL_DIRECTION, COL_RESULT}

\* C10: when the filtered view is not empty the render pass meets no missing
\* column: every column that the KPI block, the charts and the detail table
\* read is a required column of the file or a column that load_data creates.
C10_RenderFindsItsColumns ==
  (Filtered /\ df_filtered # <<>>) =>
    /\ pc # "KeyError"
    /\ (KpiChartColumns \cup DetailColumns) \subseteq
         (RequiredColumns(uploaded_file.cols) \cup (df.cols \ uploaded_file.cols))

====
